---- MODULE Spec2Model ----
(***************************************************************************)
(* Postgres-Assistant backend: the /chat/stream endpoint relaying the      *)
(* agent's event stream as Server-Sent Events (app/api/v1/endpoints/       *)
(* chat.py), the agent singleton (app/agents/postgres_assistant_agent.py,  *)
(* main.py) and the SQL tools of the MCP server (mcp-servers/              *)
(* sql_mcp_server.py).                                                     *)
(*                                                                         *)
(* Text is modelled as a sequence of one-character strings wherever the    *)
(* code inspects its characters (strip, upper, "in", startswith), and as   *)
(* a tuple of segments where the code only assembles it (f-strings).       *)
(***************************************************************************)
EXTENDS Integers, Sequences, FiniteSets, TLC

(* ------------------------------ bounds --------------------------------- *)

\* Number of fragments a query text is assembled from.
MaxFrags == 3

\* Largest result set the backend returns (beyond the truncation threshold).
MaxRows == 102

\* Total number of agent events relayed, over all requests.
MaxEvents == 4

\* Number of model turns of one run the model follows.
MaxTurns == 2

\* The client requests, numbered in their order of arrival: two, so that
\* requests follow one another and overlap.
Reqs == {1, 2}

(* -------------------------- Python values ------------------------------ *)

\* Python's None.
None == "None"

\* A key the JSON object does not hold (dict.get then answers None).
Absent == "<absent>"

\* `not v` for the values a JSON field can hold here: None and "" are falsy.
Falsy(v) == v = None \/ v = ""

\* The exception classes the handlers of chat.py distinguish, with their
\* base classes (Python's and Starlette's class hierarchy).
Bases(cls) ==
    CASE cls = "JSONDecodeError" -> {"JSONDecodeError", "ValueError", "Exception", "BaseException"}
      [] cls = "HTTPException"   -> {"HTTPException", "Exception", "BaseException"}
      [] cls = "AttributeError"  -> {"AttributeError", "Exception", "BaseException"}
      [] cls = "TypeError"       -> {"TypeError", "Exception", "BaseException"}
      [] cls = "OperationalError" -> {"OperationalError", "Exception", "BaseException"}
      [] cls = "ProgrammingError" -> {"ProgrammingError", "Exception", "BaseException"}
      [] cls = "Exception"       -> {"Exception", "BaseException"}
      [] OTHER                   -> {cls, "BaseException"}

\* isinstance(exc, cls), which an `except cls` clause tests.
IsInstance(exc, cls) == cls \in Bases(exc)

(* --------------------------- request bodies ---------------------------- *)

\* The k-th request asks the question "qk" when it asks one.
Question(r) == IF r = 1 THEN "q1" ELSE "q2"

QueryValues(r) == {Absent, None, "", Question(r)}

ThreadValues == {Absent, None, "", "t1", "t2"}

\* What `await request.json()` is given: text that is no JSON, JSON that is
\* no object (an array), or an object with or without the two fields.
Bodies(r) ==
    {[json |-> j, query |-> Absent, thread_id |-> Absent] : j \in {"invalid", "array"}}
    \cup {[json |-> "object", query |-> q, thread_id |-> t] :
              q \in QueryValues(r), t \in ThreadValues}

\* No request received yet.
NoBody == [json |-> "none", query |-> Absent, thread_id |-> Absent]

\* body.get(key)
BodyGet(body, key) == IF body[key] = Absent THEN None ELSE body[key]

\* The try block of chat_stream up to the validation: what it raises, if
\* anything (raised = None when it goes on to build the response).
ChatStreamTry(body) ==
    IF body.json = "invalid"
    THEN [raised |-> "JSONDecodeError", status_code |-> 0]
    ELSE IF body.json # "object"
    THEN [raised |-> "AttributeError", status_code |-> 0]
    ELSE IF Falsy(BodyGet(body, "query")) \/ Falsy(BodyGet(body, "thread_id"))
    THEN [raised |-> "HTTPException", status_code |-> 400]
    ELSE [raised |-> None, status_code |-> 200]

\* The except clauses of chat_stream, tried in order: the HTTP status the
\* client receives.
ChatStreamStatus(body) ==
    LET r == ChatStreamTry(body) IN
    IF r.raised = None THEN 200
    ELSE IF IsInstance(r.raised, "JSONDecodeError") THEN 400
    ELSE IF IsInstance(r.raised, "Exception") THEN 500
    ELSE r.status_code

(* ------------------------------ messages ------------------------------- *)

HumanMessage(content) == [role |-> "user", content |-> <<content>>, name |-> ""]

Threads == {"t1", "t2"}

(* --------------------------- the agent's run --------------------------- *)

\* Text of one streamed chunk; "" is a chunk without text (a tool-call chunk).
Contents == {"", "a", "b"}

ToolNames == {"sql_db_query", "sql_db_list_tables"}

\* The tool calls one model turn may request; <<>> is a final answer.
ToolCallChoices ==
    {<<>>, <<"sql_db_query">>, <<"sql_db_list_tables", "sql_db_query">>}

\* A tool's output as the event carries it: a text, or an object that
\* json.dumps cannot serialise.
Unserializable == "<object>"

ToolOutputs == {"rows", Unserializable}

\* The run state of the agent loop: the model turn, whether the model or the
\* tools are acting, the calls the turn requested and those started and ended.
NewRun ==
    [turn |-> 1, phase |-> "model", calls |-> <<>>, started |-> {}, ended |-> {}]

Event(kind, name, turn, call, content, output, tool_calls) ==
    [event |-> kind, name |-> name, turn |-> turn, call |-> call,
     content |-> content, output |-> output, tool_calls |-> tool_calls]

\* The events astream_events may deliver next in a run.
NextEvents(run) ==
    IF run.phase = "model"
    THEN {Event("on_chat_model_stream", "llm", run.turn, 0, c, "", <<>>) : c \in Contents}
         \cup {Event("on_chat_model_end", "llm", run.turn, 0, "", "", tc) :
                  tc \in IF run.turn < MaxTurns THEN ToolCallChoices ELSE {<<>>}}
    ELSE IF run.phase = "tools"
    THEN {Event("on_tool_start", run.calls[i], run.turn, i, "", "", <<>>) :
              i \in (1..Len(run.calls)) \ run.started}
         \cup {Event("on_tool_end", run.calls[i], run.turn, i, "", o, <<>>) :
                  i \in run.started \ run.ended, o \in ToolOutputs}
    ELSE {}

\* The run after it delivered event e.
AgentStep(run, e) ==
    CASE e.event = "on_chat_model_end" ->
            IF e.tool_calls = <<>>
            THEN [run EXCEPT !.phase = "done"]
            ELSE [run EXCEPT !.phase = "tools", !.calls = e.tool_calls,
                             !.started = {}, !.ended = {}]
      [] e.event = "on_tool_start" ->
            [run EXCEPT !.started = @ \cup {e.call}]
      [] e.event = "on_tool_end" ->
            IF run.ended \cup {e.call} = 1..Len(run.calls)
            THEN [run EXCEPT !.turn = @ + 1, !.phase = "model", !.calls = <<>>,
                             !.started = {}, !.ended = {}]
            ELSE [run EXCEPT !.ended = @ \cup {e.call}]
      [] OTHER -> run

(* ----------------------------- event_stream ---------------------------- *)

\* json.dumps(obj) raises TypeError on an object it cannot serialise.
JsonDumpsRaises(obj) == obj.content = Unserializable

\* event_stream relaying the event's name in place of the chunk's content.
FrameOfName(e, src) ==
    IF e.event = "on_chat_model_stream"
    THEN IF e.content # ""
         THEN <<[type |-> "token", content |-> e.name, tool |-> "", src |-> src]>>
         ELSE <<>>
    ELSE IF e.event = "on_tool_start"
    THEN <<[type |-> "tool_start", content |-> "", tool |-> e.name, src |-> src]>>
    ELSE IF e.event = "on_tool_end"
    THEN <<[type |-> "tool_end", content |-> e.output, tool |-> e.name, src |-> src]>>
    ELSE <<>>

\* The frames event_stream builds for one agent event, before json.dumps:
\* none when the event is of a kind it does not relay or a chunk without
\* content.  src is the position of the event in the run's event sequence
\* (not part of the frame's text).
FrameOf(e, src) ==
    IF e.event = "on_chat_model_stream"
    THEN IF e.content # ""
         THEN <<[type |-> "token", content |-> e.content, tool |-> "", src |-> src]>>
         ELSE <<>>
    ELSE IF e.event = "on_tool_start"
    THEN <<[type |-> "tool_start", content |-> "", tool |-> e.name, src |-> src]>>
    ELSE IF e.event = "on_tool_end"
    THEN <<[type |-> "tool_end", content |-> e.output, tool |-> e.name, src |-> src]>>
    ELSE <<>>

StreamEndFrame(src) == [type |-> "stream_end", content |-> "", tool |-> "", src |-> src]

ErrorFrame(src) == [type |-> "error", content |-> "An error occurred during agent execution", tool |-> "", src |-> src]

VARIABLES
    startup,         \* main.py startup_event: "init", "creating", "ready", "failed"
    agent_executor,  \* the module-level singleton: None or the agent
    createCalls,     \* how many times create_agent was entered
    checkpoints,     \* the agent's checkpointer: thread_id -> stored messages
    pc,              \* per request: "idle", "rejected", "streaming", "closed"
    status,          \* per request: the HTTP status answered (0: none yet)
    body,            \* per request: the body it came with
    handed,          \* per request: the message history handed to the agent
    before,          \* per request: the transcript of its thread when it began
    events,          \* per request: the agent events event_stream consumed
    frames,          \* per request: the frames event_stream yielded
    run,             \* per request: the agent's run state
    hung,            \* per request: the provider or a tool stopped responding
    transcript,      \* per thread: the messages of the completed runs, in order
    _database,       \* sql_mcp_server: None or the database connection
    toolCall,        \* sql_mcp_server: the tool call made last, with its inputs
    toolResult,      \* sql_mcp_server: what that call returned or raised
    callers          \* per caller of get_agent_executor: where it stands

vars == <<startup, agent_executor, createCalls, checkpoints, pc, status, body,
          handed, before, events, frames, run, hung, transcript,
          _database, toolCall, toolResult, callers>>

sqlVars == <<_database, toolCall, toolResult>>

chatVars == <<checkpoints, pc, status, body, handed, before, events, frames,
              run, hung, transcript>>

(* ------------------------------- the agent ----------------------------- *)

\* agent_executor = None: no agent yet.
NoAgent == [id |-> 0, checkpointer |-> FALSE]

\* create_agent handing a checkpointer to create_react_agent
\* (checkpointer=MemorySaver(), as build_graph does for its graph).
create_agent_checkpointed(id) == [id |-> id, checkpointer |-> TRUE]

\* create_agent: create_react_agent(model=llm, tools=tools, prompt=prompt),
\* built without a checkpointer.
create_agent(id) == [id |-> id, checkpointer |-> FALSE]

\* The history the agent starts a run from: what its checkpointer holds for
\* the thread (nothing without a checkpointer), then the input messages.
AgentInput(agent, thread_id, messages) ==
    (IF agent.checkpointer THEN checkpoints[thread_id] ELSE <<>>) \o messages

\* The assistant and tool messages a run produced, in causal order: one
\* assistant message per finished model turn, one tool message per tool end.
RECURSIVE RunMessages(_, _)
RunMessages(evs, text) ==
    IF evs = <<>> THEN <<>>
    ELSE LET e == Head(evs) IN
         IF e.event = "on_chat_model_stream"
         THEN RunMessages(Tail(evs), text \o <<e.content>>)
         ELSE IF e.event = "on_chat_model_end"
         THEN <<[role |-> "assistant", content |-> text, name |-> ""]>>
              \o RunMessages(Tail(evs), <<>>)
         ELSE IF e.event = "on_tool_end"
         THEN <<[role |-> "tool", content |-> <<e.output>>, name |-> e.name]>>
              \o RunMessages(Tail(evs), text)
         ELSE RunMessages(Tail(evs), text)

\* An agent with a checkpointer saves the thread's messages after every step
\* of the run (a finished model turn, a finished tool call); an agent
\* without one saves nothing.
CheckpointStep(agent, thread_id, history, evs) ==
    IF agent.checkpointer /\ evs # <<>>
       /\ evs[Len(evs)].event \in {"on_chat_model_end", "on_tool_end"}
    THEN [checkpoints EXCEPT ![thread_id] = history \o RunMessages(evs, <<>>)]
    ELSE checkpoints

\* What the checkpointer stores when a run completes.
CheckpointAfter(agent, thread_id, history, evs) ==
    IF agent.checkpointer
    THEN [checkpoints EXCEPT ![thread_id] = history \o RunMessages(evs, <<>>)]
    ELSE checkpoints

TotalEvents == LET RECURSIVE Sum(_)
                   Sum(S) == IF S = {} THEN 0
                             ELSE LET r == CHOOSE x \in S : TRUE
                                  IN Len(events[r]) + Sum(S \ {r})
               IN Sum(Reqs)


(* ========================= the SQL MCP server ========================== *)

(* ------------------------------- text ---------------------------------- *)

Lower == <<"a", "b", "c", "d", "e", "f", "g", "h", "i", "j", "k", "l", "m",
           "n", "o", "p", "q", "r", "s", "t", "u", "v", "w", "x", "y", "z">>

Capital == <<"A", "B", "C", "D", "E", "F", "G", "H", "I", "J", "K", "L", "M",
             "N", "O", "P", "Q", "R", "S", "T", "U", "V", "W", "X", "Y", "Z">>

Whitespace == {" ", "\n", "\t"}

\* str.upper() on one character.
UpperChar(c) ==
    IF \E i \in 1..26 : Lower[i] = c
    THEN Capital[CHOOSE i \in 1..26 : Lower[i] = c]
    ELSE c

\* s.upper()
Upper(s) == [i \in 1..Len(s) |-> UpperChar(s[i])]

\* s.strip()
Strip(s) ==
    LET keep == {i \in 1..Len(s) : s[i] \notin Whitespace} IN
    IF keep = {} THEN <<>>
    ELSE LET lo == CHOOSE i \in keep : \A j \in keep : i <= j
             hi == CHOOSE i \in keep : \A j \in keep : j <= i
         IN SubSeq(s, lo, hi)

\* s.startswith(x)
StartsWith(s, x) == Len(x) <= Len(s) /\ SubSeq(s, 1, Len(x)) = x

\* s.endswith(x)
EndsWith(s, x) == Len(x) <= Len(s) /\ SubSeq(s, Len(s) - Len(x) + 1, Len(s)) = x

\* x in s
In(x, s) == \E i \in 1..(Len(s) - Len(x) + 1) : SubSeq(s, i, i + Len(x) - 1) = x

\* s.split(sep) for a one-character separator.
RECURSIVE Split(_, _)
Split(s, sep) ==
    IF \A i \in 1..Len(s) : s[i] # sep THEN <<s>>
    ELSE LET k == CHOOSE i \in 1..Len(s) : s[i] = sep /\ \A j \in 1..(i - 1) : s[j] # sep
         IN <<SubSeq(s, 1, k - 1)>> \o Split(SubSeq(s, k + 1, Len(s)), sep)

\* dangerous_keywords, in the order the loop tries them.
dangerous_keywords ==
    <<<<"D", "R", "O", "P">>,
      <<"D", "E", "L", "E", "T", "E">>,
      <<"T", "R", "U", "N", "C", "A", "T", "E">>,
      <<"A", "L", "T", "E", "R", " ", "T", "A", "B", "L", "E">>,
      <<"C", "R", "E", "A", "T", "E", " ", "D", "A", "T", "A", "B", "A", "S", "E">>,
      <<"D", "R", "O", "P", " ", "D", "A", "T", "A", "B", "A", "S", "E">>>>

KW_SELECT == <<"S", "E", "L", "E", "C", "T">>

KW_EXPLAIN == <<"E", "X", "P", "L", "A", "I", "N", " ">>

\* The pieces query texts are assembled from.
Fragments ==
    {<<"d", "r", "o", "p">>,
     <<"D", "E", "L", "E", "T", "E">>,
     <<"T", "r", "u", "n", "c", "a", "t", "e">>,
     <<"a", "l", "t", "e", "r">>,
     <<"t", "a", "b", "l", "e">>,
     <<" ">>,
     <<";">>,
     <<"s", "e", "l", "e", "c", "t">>,
     <<"c", "r", "e", "a", "t", "e", " ", "d", "a", "t", "a", "b", "a", "s", "e">>}

RECURSIVE Texts(_)
Texts(n) ==
    IF n = 0 THEN {<<>>}
    ELSE Texts(n - 1) \cup {t \o f : t \in Texts(n - 1), f \in Fragments}

Queries == Texts(MaxFrags)

\* The queries sql_db_query and health_check are followed with.
SampleQueries == {<<"S", "E", "L", "E", "C", "T", " ", "1">>, <<"d", "r", "o", "p", " ", "t", "a", "b", "l", "e", " ", "t">>}

TableNameTexts == {<<>>, <<" ">>, <<"u", "s", "e", "r", "s">>, <<"u", "s", "e", "r", "s", ",", " ", "o", "r", "d", "e", "r", "s">>}

\* The table_names arguments of sql_db_schema: None, or a text.
TableNameArgs ==
    {[is_none |-> TRUE, text |-> <<>>]}
    \cup {[is_none |-> FALSE, text |-> t] : t \in TableNameTexts}

(* ---------------------------- the backend ------------------------------ *)

\* Row i of a result set: rows differ from one another and by result set.
Row(i, k) == i * k

ResultSet(n, k) == [i \in 1..n |-> Row(i, k)]

\* What _database.run(query) does: returns a list of rows, returns another
\* object (a text), or raises.
RunResponses ==
    {[kind |-> "list", rows |-> ResultSet(n, k), exc |-> None] :
         n \in 0..MaxRows, k \in {1, 2}}
    \cup {[kind |-> "str", rows |-> <<>>, exc |-> None]}
    \cup {[kind |-> "raise", rows |-> <<>>, exc |-> x] :
              x \in {"OperationalError", "ProgrammingError"}}

NoResponse == [kind |-> "none", rows |-> <<>>, exc |-> None]

\* No tool call is being served.
NoCall == [tool |-> "none", db |-> None, arg |-> <<>>, resp |-> NoResponse]

\* The responses that matter to a caller that only awaits the call: the
\* call returns, or it raises.
RunOutcomes ==
    {r \in RunResponses :
        /\ r.kind \in {"list", "raise"}
        /\ r.kind = "list" => r.rows = ResultSet(1, 1)
        /\ r.kind = "raise" => r.exc = "OperationalError"}

\* What get_usable_table_names() / get_table_info() do: return a list of
\* table names, return another iterable (a set), or raise.
TableResponses ==
    {[kind |-> "list", rows |-> <<"users", "orders">>, exc |-> None],
     [kind |-> "list", rows |-> <<>>, exc |-> None],
     [kind |-> "set", rows |-> <<>>, exc |-> None],
     [kind |-> "raise", rows |-> <<>>, exc |-> "OperationalError"]}

(* ------------------------------ the tools ------------------------------ *)

\* A tool's outcome: the text it returns (a tuple of segments), or the
\* exception that leaves it, and the calls it made on _database.
Return(text, calls) == [raised |-> None, text |-> text, calls |-> calls]

Raise(exc, calls) == [raised |-> exc, text |-> <<>>, calls |-> calls]

Call(method, arg) == [method |-> method, arg |-> arg]

\* The handler catching too narrow a class: `except ValueError as e`.
ExceptValueError(res, prefix) ==
    IF res.raised # None /\ IsInstance(res.raised, "ValueError")
    THEN Return(<<prefix, res.raised>>, res.calls)
    ELSE res

\* `except Exception as e: return f"{prefix}{str(e)}"` around a tool body.
ExceptException(res, prefix) ==
    IF res.raised # None /\ IsInstance(res.raised, "Exception")
    THEN Return(<<prefix, res.raised>>, res.calls)
    ELSE res

NotInitialized == Return(<<"Error: Database not initialized">>, <<>>)

\* The row threshold of sql_db_query.
RowLimit == 100

\* result[:n]
Take(s, n) == SubSeq(s, 1, IF Len(s) < n THEN Len(s) ELSE n)

\* sql_db_query comparing against the wrong threshold: `len(result) > 101`.
sql_db_query_off_by_one(db, query, resp) ==
    ExceptException(
        IF db = None THEN NotInitialized
        ELSE LET calls == <<Call("run", query)>> IN
             IF resp.kind = "raise" THEN Raise(resp.exc, calls)
             ELSE IF resp.kind = "list"
             THEN IF Len(resp.rows) = 0
                  THEN Return(<<"Query executed successfully. No rows returned.">>, calls)
                  ELSE IF Len(resp.rows) > RowLimit + 1
                  THEN Return(<<"Query returned ", Len(resp.rows), " rows. First ",
                                RowLimit, " rows:\n", Take(resp.rows, RowLimit)>>, calls)
                  ELSE Return(<<"Query returned ", Len(resp.rows), " rows:\n",
                                resp.rows>>, calls)
             ELSE Return(<<"str(result)">>, calls),
        "Error executing SQL query: ")

sql_db_query(db, query, resp) ==
    ExceptException(
        IF db = None THEN NotInitialized
        ELSE LET calls == <<Call("run", query)>> IN
             IF resp.kind = "raise" THEN Raise(resp.exc, calls)
             ELSE IF resp.kind = "list"
             THEN IF Len(resp.rows) = 0
                  THEN Return(<<"Query executed successfully. No rows returned.">>, calls)
                  ELSE IF Len(resp.rows) > RowLimit
                  THEN Return(<<"Query returned ", Len(resp.rows), " rows. First ",
                                RowLimit, " rows:\n", Take(resp.rows, RowLimit)>>, calls)
                  ELSE Return(<<"Query returned ", Len(resp.rows), " rows:\n",
                                resp.rows>>, calls)
             ELSE Return(<<"str(result)">>, calls),
        "Error executing SQL query: ")

sql_db_schema(db, table_names, resp) ==
    ExceptException(
        IF db = None THEN NotInitialized
        ELSE LET table_list ==
                     IF ~table_names.is_none /\ table_names.text # <<>>
                        /\ Strip(table_names.text) # <<>>
                     THEN [i \in 1..Len(Split(table_names.text, ",")) |->
                               Strip(Split(table_names.text, ",")[i])]
                     ELSE <<>>
                 calls == <<Call("get_table_info", table_list)>>
             IN IF resp.kind = "raise" THEN Raise(resp.exc, calls)
                ELSE Return(<<"str(result)">>, calls),
        "Error getting schema: ")

sql_db_list_tables(db, resp) ==
    ExceptException(
        IF db = None THEN NotInitialized
        ELSE LET calls == <<Call("get_usable_table_names", <<>>)>> IN
             IF resp.kind = "raise" THEN Raise(resp.exc, calls)
             ELSE IF resp.kind = "list"
             THEN Return(<<"Available tables (", Len(resp.rows), "): ", resp.rows>>, calls)
             ELSE Return(<<"Available tables: ", "str(tables)">>, calls),
        "Error listing tables: ")

\* sql_db_query_checker matching the keywords without `.upper()`.
sql_db_query_checker_case_sensitive(db, query, resp) ==
    ExceptException(
        IF db = None THEN NotInitialized
        ELSE LET hits == {i \in 1..Len(dangerous_keywords) :
                              In(dangerous_keywords[i], Strip(query))}
             IN
             IF hits # {}
             THEN LET first == CHOOSE i \in hits : \A j \in hits : i <= j IN
                  Return(<<"WARNING:", " Query contains potentially dangerous keyword '",
                           dangerous_keywords[first], "'. Please review carefully.">>, <<>>)
             ELSE Return(<<"Query passed basic safety checks. Please review before execution.">>, <<>>),
        "Error checking query: ")

\* sql_db_query_checker explaining the query as given, without `query += ';'`.
sql_db_query_checker_no_semicolon(db, query, resp) ==
    ExceptException(
        IF db = None THEN NotInitialized
        ELSE LET query_upper == Upper(Strip(query))
                 hits == {i \in 1..Len(dangerous_keywords) :
                              In(dangerous_keywords[i], query_upper)}
             IN
             IF hits # {}
             THEN LET first == CHOOSE i \in hits : \A j \in hits : i <= j IN
                  Return(<<"WARNING:", " Query contains potentially dangerous keyword '",
                           dangerous_keywords[first], "'. Please review carefully.">>, <<>>)
             ELSE IF Strip(query) = <<>>
             THEN Return(<<"ERROR: Empty query provided">>, <<>>)
             ELSE IF StartsWith(query_upper, KW_SELECT)
                  THEN LET calls == <<Call("run", KW_EXPLAIN \o query)>> IN
                       IF resp.kind = "raise"
                       THEN Return(<<"Query syntax error: ", resp.exc>>, calls)
                       ELSE Return(<<"Query syntax appears valid and safe for execution">>, calls)
                  ELSE Return(<<"Query passed basic safety checks. Please review before execution.">>, <<>>),
        "Error checking query: ")

sql_db_query_checker(db, query, resp) ==
    ExceptException(
        IF db = None THEN NotInitialized
        ELSE LET query_upper == Upper(Strip(query))
                 hits == {i \in 1..Len(dangerous_keywords) :
                              In(dangerous_keywords[i], query_upper)}
             IN
             IF hits # {}
             THEN LET first == CHOOSE i \in hits : \A j \in hits : i <= j IN
                  Return(<<"WARNING:", " Query contains potentially dangerous keyword '",
                           dangerous_keywords[first], "'. Please review carefully.">>, <<>>)
             ELSE IF Strip(query) = <<>>
             THEN Return(<<"ERROR: Empty query provided">>, <<>>)
             ELSE LET checked ==
                          IF ~EndsWith(Strip(query), <<";">>) /\ StartsWith(query_upper, KW_SELECT)
                          THEN query \o <<";">>
                          ELSE query
                  IN
                  IF StartsWith(query_upper, KW_SELECT)
                  THEN LET calls == <<Call("run", KW_EXPLAIN \o checked)>> IN
                       IF resp.kind = "raise"
                       THEN Return(<<"Query syntax error: ", resp.exc>>, calls)
                       ELSE Return(<<"Query syntax appears valid and safe for execution">>, calls)
                  ELSE Return(<<"Query passed basic safety checks. Please review before execution.">>, <<>>),
        "Error checking query: ")

sql_db_info(db, resp) ==
    ExceptException(
        IF db = None THEN NotInitialized
        ELSE LET calls == <<Call("get_usable_table_names", <<>>)>> IN
             IF resp.kind = "raise" THEN Raise(resp.exc, calls)
             ELSE IF resp.kind = "list"
             THEN Return(<<"json.dumps(info)", Len(resp.rows),
                           IF Len(resp.rows) > 10 THEN Take(resp.rows, 10) ELSE resp.rows>>,
                         calls)
             ELSE Raise("TypeError", calls),
        "Error getting database info: ")

health_check(db, resp) ==
    ExceptException(
        IF db = None
        THEN Return(<<"json.dumps(status)", "not_initialized">>, <<>>)
        ELSE LET calls == <<Call("run", <<"S", "E", "L", "E", "C", "T", " ", "1">>)>> IN
             IF resp.kind = "raise"
             THEN Return(<<"json.dumps(status)", "error: ", resp.exc>>, calls)
             ELSE Return(<<"json.dumps(status)", "active">>, calls),
        "Health check error: ")

(* ------------------------- create_agent's prompt ----------------------- *)

\* Number of schema resources the MCP server returns.
MaxResources == 2

\* sep.join(texts), a text being a tuple of segments.
RECURSIVE Join(_, _)
Join(texts, sep) ==
    IF texts = <<>> THEN <<>>
    ELSE IF Len(texts) = 1 THEN texts[1]
    ELSE texts[1] \o <<sep>> \o Join(Tail(texts), sep)

Column(name, type) == [column_name |-> name, data_type |-> type]

\* A schema resource: its URI split at '/', and its data, a JSON text that
\* parses to a list of columns or does not parse.
Resource(uri, valid, columns) == [uri |-> uri, valid |-> valid, columns |-> columns]

ResourceChoices ==
    {Resource(<<"postgres:", "", "db", "users", "schema">>, TRUE,
              <<Column("id", "integer"), Column("name", "text")>>),
     Resource(<<"postgres:", "", "db", "orders", "schema">>, TRUE,
              <<Column("total", "numeric")>>),
     Resource(<<"postgres:", "", "db", "logs", "schema">>, FALSE, <<>>),
     Resource(<<"schema">>, TRUE, <<Column("id", "integer")>>)}

RECURSIVE ResourceLists(_)
ResourceLists(n) ==
    IF n = 0 THEN {<<>>}
    ELSE ResourceLists(n - 1)
         \cup {Append(l, x) : l \in ResourceLists(n - 1), x \in ResourceChoices}

\* The try block of the loop over the resources raises: uri.split('/')[-2]
\* on a URI without two segments (IndexError), json.loads on data that is
\* no JSON (JSONDecodeError).
ResourceRaises(resource) == Len(resource.uri) < 2 \/ ~resource.valid

\* The grave accent (U+0060) around a table name, named since a TLA+ string
\* cannot hold the character.
Backquote == "GRAVE ACCENT"

\* full_table_description of a resource that parses.
TableDescription(resource) ==
    <<"Table ", Backquote, resource.uri[Len(resource.uri) - 1], Backquote, ":\n">>
    \o Join([i \in 1..Len(resource.columns) |->
                <<"- ", resource.columns[i].column_name, " (",
                  resource.columns[i].data_type, ")">>], "\n")

\* schema_descriptions after the loop: the descriptions of the resources
\* that parse, in resource order.
RECURSIVE schema_descriptions(_)
schema_descriptions(resources) ==
    IF resources = <<>> THEN <<>>
    ELSE (IF ResourceRaises(Head(resources)) THEN <<>>
          ELSE <<TableDescription(Head(resources))>>)
         \o schema_descriptions(Tail(resources))

NoSchemaPlaceholder == <<"No schema information is available to the agent.">>

\* database_schema_string after the final prompt assembly (lines 85-93).
AssembledSchema(resources) ==
    IF Join(schema_descriptions(resources), "\n\n") = <<>>
    THEN NoSchemaPlaceholder
    ELSE Join(schema_descriptions(resources), "\n\n")

\* database_schema_string when system_prompt is built: line 99 assigns ""
\* to it after the assembly.
database_schema_string(resources) == <<>>

\* system_prompt: the instructions, then the schema between its markers.
system_prompt(resources) ==
    <<"You are a helpful and expert PostgreSQL assistant. ...",
      "\n\n--- DATABASE SCHEMA ---\n">>
    \o database_schema_string(resources)
    \o <<"\n--- END SCHEMA ---">>

(* ---------------------- get_agent_executor's callers ------------------- *)

\* The callers of get_agent_executor: the startup handler and chat requests.
Callers == {"startup_event", "chat_stream_1", "chat_stream_2"}

\* A caller that has not called yet.  call is the number of the create_agent
\* call it made (0: none), got the id of the agent it was returned.
NotCalled == [pc |-> "idle", call |-> 0, got |-> 0, resources |-> <<>>, prompt |-> <<>>]

(* ------------------------------- actions ------------------------------- *)

Init ==
    /\ startup = "init"
    /\ agent_executor = NoAgent
    /\ createCalls = 0
    /\ checkpoints = [t \in Threads |-> <<>>]
    /\ pc = [r \in Reqs |-> "idle"]
    /\ status = [r \in Reqs |-> 0]
    /\ body = [r \in Reqs |-> NoBody]
    /\ handed = [r \in Reqs |-> <<>>]
    /\ before = [r \in Reqs |-> <<>>]
    /\ events = [r \in Reqs |-> <<>>]
    /\ frames = [r \in Reqs |-> <<>>]
    /\ run = [r \in Reqs |-> NewRun]
    /\ hung = [r \in Reqs |-> FALSE]
    /\ transcript = [t \in Threads |-> <<>>]
    /\ _database = None
    /\ toolCall = NoCall
    /\ toolResult = Return(<<>>, <<>>)
    /\ callers = [c \in Callers |-> NotCalled]

\* startup_event -> get_agent_executor: agent_executor is None, so
\* create_agent is entered and awaited.
StartupBegin ==
    /\ startup = "init"
    /\ agent_executor = NoAgent
    /\ startup' = "creating"
    /\ createCalls' = createCalls + 1
    /\ UNCHANGED <<agent_executor, chatVars>>
    /\ UNCHANGED <<sqlVars, callers>>

\* create_agent returned: the singleton is set, the application serves.
StartupDone ==
    /\ startup = "creating"
    /\ agent_executor' = create_agent(createCalls)
    /\ startup' = "ready"
    /\ UNCHANGED <<createCalls, chatVars>>
    /\ UNCHANGED <<sqlVars, callers>>

\* create_agent raised (MCP server or LLM configuration): startup fails and
\* the application serves no request.
StartupFail ==
    /\ startup = "creating"
    /\ startup' = "failed"
    /\ UNCHANGED <<agent_executor, createCalls, chatVars>>
    /\ UNCHANGED <<sqlVars, callers>>

\* chat_stream: parse and validate the body; answer an error status, or get
\* the agent and return the StreamingResponse whose generator starts the run.
\* Requests are numbered in their order of arrival.
ChatStream(r, b) ==
    /\ startup = "ready"
    /\ pc[r] = "idle"
    /\ \A q \in Reqs : q < r => pc[q] # "idle"
    /\ body' = [body EXCEPT ![r] = b]
    /\ status' = [status EXCEPT ![r] = ChatStreamStatus(b)]
    /\ IF ChatStreamStatus(b) = 200
       THEN /\ pc' = [pc EXCEPT ![r] = "streaming"]
            /\ handed' = [handed EXCEPT ![r] =
                  AgentInput(agent_executor, b.thread_id, <<HumanMessage(b.query)>>)]
            /\ before' = [before EXCEPT ![r] = transcript[b.thread_id]]
       ELSE /\ pc' = [pc EXCEPT ![r] = "rejected"]
            /\ UNCHANGED <<handed, before>>
    /\ UNCHANGED <<startup, agent_executor, createCalls, checkpoints, events,
                   frames, run, hung, transcript>>
    /\ UNCHANGED <<sqlVars, callers>>

\* One iteration of `async for event in agent.astream_events(...)`: the
\* agent delivers e, event_stream yields its frame if it relays the kind;
\* json.dumps raising lands in the except clause, which yields the error
\* frame and ends the generator.
StreamEvent(r) ==
    /\ pc[r] = "streaming"
    /\ ~hung[r]
    /\ TotalEvents < MaxEvents
    /\ \E e \in NextEvents(run[r]) :
         /\ events' = [events EXCEPT ![r] = Append(@, e)]
         /\ run' = [run EXCEPT ![r] = AgentStep(@, e)]
         /\ checkpoints' = CheckpointStep(agent_executor, body[r].thread_id,
                                          handed[r], Append(events[r], e))
         /\ LET f == FrameOf(e, Len(events[r]) + 1) IN
            IF f = <<>>
            THEN UNCHANGED <<frames, pc>>
            ELSE IF JsonDumpsRaises(f[1])
            THEN /\ frames' = [frames EXCEPT ![r] =
                                  Append(@, ErrorFrame(Len(events[r]) + 1))]
                 /\ pc' = [pc EXCEPT ![r] = "closed"]
            ELSE /\ frames' = [frames EXCEPT ![r] = @ \o f]
                 /\ UNCHANGED pc
    /\ UNCHANGED <<startup, agent_executor, createCalls, status,
                   body, handed, before, hung, transcript>>
    /\ UNCHANGED <<sqlVars, callers>>

\* The agent's stream is exhausted: event_stream yields stream_end.
StreamEnd(r) ==
    /\ pc[r] = "streaming"
    /\ ~hung[r]
    /\ run[r].phase = "done"
    /\ frames' = [frames EXCEPT ![r] = Append(@, StreamEndFrame(Len(events[r])))]
    /\ pc' = [pc EXCEPT ![r] = "closed"]
    /\ checkpoints' = CheckpointAfter(agent_executor, body[r].thread_id,
                                      handed[r], events[r])
    /\ transcript' = [transcript EXCEPT ![body[r].thread_id] =
                         @ \o <<HumanMessage(body[r].query)>>
                           \o RunMessages(events[r], <<>>)]
    /\ UNCHANGED <<startup, agent_executor, createCalls, status, body, handed,
                   before, events, run, hung>>
    /\ UNCHANGED <<sqlVars, callers>>

\* event_stream with the stream_end yield placed after the try statement:
\* the except clause yields the error frame and stream_end follows it.
StreamRaiseThenEnd(r) ==
    /\ pc[r] = "streaming"
    /\ ~hung[r]
    /\ run[r].phase # "done"
    /\ frames' = [frames EXCEPT ![r] =
                      @ \o <<ErrorFrame(Len(events[r])), StreamEndFrame(Len(events[r]))>>]
    /\ pc' = [pc EXCEPT ![r] = "closed"]
    /\ UNCHANGED <<startup, agent_executor, createCalls, checkpoints, status,
                   body, handed, before, events, run, hung, transcript>>
    /\ UNCHANGED <<sqlVars, callers>>

\* The agent's stream raises an Exception (provider failure, recursion
\* limit, a tool's error): the except clause yields the error frame.
StreamRaise(r) ==
    /\ pc[r] = "streaming"
    /\ ~hung[r]
    /\ run[r].phase # "done"
    /\ frames' = [frames EXCEPT ![r] = Append(@, ErrorFrame(Len(events[r])))]
    /\ pc' = [pc EXCEPT ![r] = "closed"]
    /\ UNCHANGED <<startup, agent_executor, createCalls, checkpoints, status,
                   body, handed, before, events, run, hung, transcript>>
    /\ UNCHANGED <<sqlVars, callers>>

\* The generation provider or a dispatched tool never responds: the
\* `async for` stays suspended; nothing in event_stream bounds the wait.
StreamHang(r) ==
    /\ pc[r] = "streaming"
    /\ ~hung[r]
    /\ run[r].phase # "done"
    /\ hung' = [hung EXCEPT ![r] = TRUE]
    /\ UNCHANGED <<startup, agent_executor, createCalls, checkpoints, pc,
                   status, body, handed, before, events, frames, run, transcript>>
    /\ UNCHANGED <<sqlVars, callers>>

Next ==
    \/ StartupBegin
    \/ StartupDone
    \/ StartupFail
    \/ \E r \in Reqs : \E b \in Bodies(r) : ChatStream(r, b)
    \/ \E r \in Reqs : StreamEvent(r)
    \/ \E r \in Reqs : StreamEnd(r)
    \/ \E r \in Reqs : StreamRaise(r)
    \/ \E r \in Reqs : StreamHang(r)

Spec == Init /\ [][Next]_vars

(* ===================== properties of /chat/stream ====================== *)

Terminal(f) == f.type \in {"stream_end", "error"}

\* The positions of the terminal frames among the frames of request r.
Terminals(r) == {i \in 1..Len(frames[r]) : Terminal(frames[r][i])}

\* C1: the frames of an accepted request hold at most one terminal frame
\* (stream_end or error), nothing follows it, and once the agent's stream
\* completed or raised there is exactly one, the last frame.
C1_OneTerminalFrameLast ==
    \A r \in Reqs :
        /\ Cardinality(Terminals(r)) <= 1
        /\ Terminals(r) # {} => Terminals(r) = {Len(frames[r])}
        /\ pc[r] = "closed" <=> Terminals(r) # {}
        /\ pc[r] \in {"idle", "rejected"} => frames[r] = <<>>

\* A run that relayed frames was ended by an error frame, its last frame.
C1_Witness ==
    \E r \in Reqs :
        /\ pc[r] = "closed"
        /\ Len(frames[r]) >= 3
        /\ frames[r][Len(frames[r])].type = "error"
        /\ frames[r][1].type = "token"

\* The body lacks a field (absent, null or empty) or is no valid JSON.
Malformed(b) ==
    \/ b.json = "invalid"
    \/ /\ b.json = "object"
       /\ \/ b.query \in {Absent, None, ""}
          \/ b.thread_id \in {Absent, None, ""}

\* C2: a request whose body lacks query or thread_id, or is no valid JSON,
\* is answered with status 400.
C2_MalformedIs400 ==
    \A r \in Reqs :
        (pc[r] # "idle" /\ Malformed(body[r])) => status[r] = 400

\* C3: the history handed to the agent for a request is the messages of the
\* completed requests of its thread, in order, then the new user message.
C3_HistoryHandedToAgent ==
    \A r \in Reqs :
        pc[r] \in {"streaming", "closed"}
        => handed[r] = before[r] \o <<HumanMessage(body[r].query)>>

\* C4: no two runs are active for one thread_id at the same time.
C4_OneRunPerThread ==
    \A r1, r2 \in Reqs :
        (r1 # r2 /\ pc[r1] = "streaming" /\ pc[r2] = "streaming")
        => body[r1].thread_id # body[r2].thread_id

\* Frame j of request r is the tool_end of the tool call that frame i is
\* the tool_start of: same call of the same turn, same tool name.
Matches(r, i, j) ==
    LET fs == frames[r]
        es == events[r]
    IN /\ fs[i].type = "tool_start"
       /\ fs[j].type = "tool_end"
       /\ fs[i].tool = fs[j].tool
       /\ es[fs[i].src].turn = es[fs[j].src].turn
       /\ es[fs[i].src].call = es[fs[j].src].call

\* C5: once the terminal frame is out, every tool_start frame is followed by
\* exactly one tool_end frame of the same call and tool name, and every
\* tool_end frame follows its tool_start.
C5_ToolStartHasToolEnd ==
    \A r \in Reqs :
        pc[r] = "closed"
        => LET n == Len(frames[r]) IN
           /\ \A i \in 1..n :
                 frames[r][i].type = "tool_start"
                 => Cardinality({j \in (i + 1)..n : Matches(r, i, j)}) = 1
           /\ \A j \in 1..n :
                 frames[r][j].type = "tool_end"
                 => \E i \in 1..(j - 1) : Matches(r, i, j)

\* What was stored for the thread of request r when the request began: the
\* history handed to the agent without the new user message.
StoredBefore(r) == SubSeq(handed[r], 1, Len(handed[r]) - 1)

\* C11: when a run ended with an error frame, the history stored for its
\* thread_id is what it was before the request, whatever model turns and
\* tool calls the run had completed.
C11_AbortedRunCommitsNothing ==
    \A r \in Reqs :
        (/\ pc[r] = "closed"
         /\ frames[r][Len(frames[r])].type = "error")
        => checkpoints[body[r].thread_id] = StoredBefore(r)

\* A run finished a model turn and a tool call, then failed.
C11_Witness ==
    \E r \in Reqs :
        /\ pc[r] = "closed"
        /\ frames[r][Len(frames[r])].type = "error"
        /\ Len(events[r]) >= 3
        /\ events[r][1].event = "on_chat_model_end"
        /\ events[r][3].event = "on_tool_end"
        /\ events[r][3].output = "rows"
        /\ run[r].turn = 2
        /\ checkpoints[body[r].thread_id] = <<>>

\* Some step of request r's stream can be taken.
StreamCanStep(r) ==
    \/ ENABLED StreamEnd(r)
    \/ ENABLED StreamRaise(r)
    \/ ENABLED StreamEvent(r)

\* C6: an accepted request whose stream is open always has a step ahead
\* that leads to its stream_end or error frame (a silent provider or tool
\* is cut off by a timeout): the stream never stays open with nothing left
\* to happen.
C6_OpenStreamCanEnd ==
    \A r \in Reqs : pc[r] = "streaming" => StreamCanStep(r)

\* s1 \o s2 \o ... for a sequence of texts.
RECURSIVE Concat(_)
Concat(ss) == IF ss = <<>> THEN "" ELSE Head(ss) \o Concat(Tail(ss))

\* select(s, P) keeps the elements of s at the positions in P, in order.
RECURSIVE Pick(_, _, _)
Pick(s, P, i) ==
    IF i > Len(s) THEN <<>>
    ELSE (IF i \in P THEN <<s[i]>> ELSE <<>>) \o Pick(s, P, i + 1)

\* The text of the token frames of request r that model turn t produced.
TokenText(r, t) ==
    LET P == {i \in 1..Len(frames[r]) :
                 frames[r][i].type = "token" /\ events[r][frames[r][i].src].turn = t}
        fs == Pick(frames[r], P, 1)
    IN Concat([i \in 1..Len(fs) |-> fs[i].content])

\* The text the model streamed in turn t of request r.
ChunkText(r, t) ==
    LET P == {i \in 1..Len(events[r]) :
                 events[r][i].event = "on_chat_model_stream" /\ events[r][i].turn = t}
        es == Pick(events[r], P, 1)
    IN Concat([i \in 1..Len(es) |-> es[i].content])

\* C10: for every model turn, the contents of its token frames, concatenated
\* in emission order, are the contents of the chunks the model streamed in
\* that turn, concatenated in order; a chunk without content makes no frame.
C10_TokensAreTheChunks ==
    \A r \in Reqs :
        /\ \A t \in 1..(MaxTurns + 1) : TokenText(r, t) = ChunkText(r, t)
        /\ \A i \in 1..Len(frames[r]) :
              frames[r][i].type = "token" => frames[r][i].content # ""

\* A turn streamed "a", an empty chunk and "b": its token frames read "ab".
C10_Witness ==
    \E r \in Reqs :
        /\ Len(events[r]) >= 3
        /\ events[r][1].content = "a"
        /\ events[r][2].event = "on_chat_model_stream"
        /\ events[r][2].content = ""
        /\ events[r][3].content = "b"
        /\ TokenText(r, 1) = "ab"
        /\ Len(frames[r]) = 2

(* ----------------------- actions of the SQL server --------------------- *)

chatAll == <<startup, agent_executor, createCalls, chatVars, callers>>

\* main: initialize_database(database_url)
InitializeDatabase ==
    /\ _database = None
    /\ toolCall = NoCall
    /\ _database' = "db"
    /\ UNCHANGED <<toolCall, toolResult, chatAll>>

\* The server serves one tool call at a time (stdio transport): a call runs
\* to its result, which ToolReply hands back.  Served is the record of the
\* call: the tool, the state of _database it met, its argument and what the
\* backend answered.
Served(tool, arg, resp) == [tool |-> tool, db |-> _database, arg |-> arg, resp |-> resp]

SqlDbQuery(query, resp) ==
    /\ toolCall = NoCall
    /\ toolCall' = Served("sql_db_query", query, resp)
    /\ toolResult' = sql_db_query(_database, query, resp)
    /\ UNCHANGED <<_database, chatAll>>

SqlDbSchema(table_names, resp) ==
    /\ toolCall = NoCall
    /\ toolCall' = Served("sql_db_schema", table_names, resp)
    /\ toolResult' = sql_db_schema(_database, table_names, resp)
    /\ UNCHANGED <<_database, chatAll>>

SqlDbListTables(resp) ==
    /\ toolCall = NoCall
    /\ toolCall' = Served("sql_db_list_tables", <<>>, resp)
    /\ toolResult' = sql_db_list_tables(_database, resp)
    /\ UNCHANGED <<_database, chatAll>>

SqlDbQueryChecker(query, resp) ==
    /\ toolCall = NoCall
    /\ toolCall' = Served("sql_db_query_checker", query, resp)
    /\ toolResult' = sql_db_query_checker(_database, query, resp)
    /\ UNCHANGED <<_database, chatAll>>

SqlDbInfo(resp) ==
    /\ toolCall = NoCall
    /\ toolCall' = Served("sql_db_info", <<>>, resp)
    /\ toolResult' = sql_db_info(_database, resp)
    /\ UNCHANGED <<_database, chatAll>>

HealthCheck(resp) ==
    /\ toolCall = NoCall
    /\ toolCall' = Served("health_check", <<>>, resp)
    /\ toolResult' = health_check(_database, resp)
    /\ UNCHANGED <<_database, chatAll>>

\* The result is sent to the caller; the server awaits the next call.
ToolReply ==
    /\ toolCall # NoCall
    /\ toolCall' = NoCall
    /\ toolResult' = Return(<<>>, <<>>)
    /\ UNCHANGED <<_database, chatAll>>

NextSql ==
    \/ InitializeDatabase
    \/ ToolReply
    \/ \E q \in SampleQueries, resp \in RunResponses : SqlDbQuery(q, resp)
    \/ \E t \in TableNameArgs, resp \in TableResponses : SqlDbSchema(t, resp)
    \/ \E resp \in TableResponses : SqlDbListTables(resp)
    \/ \E q \in Queries, resp \in RunOutcomes : SqlDbQueryChecker(q, resp)
    \/ \E resp \in TableResponses : SqlDbInfo(resp)
    \/ \E resp \in RunOutcomes : HealthCheck(resp)

SpecSql == Init /\ [][NextSql]_vars

(* ------------------- actions of the agent singleton -------------------- *)

\* get_agent_executor up to its await: the caller tests agent_executor; when
\* it is None the caller enters create_agent and is suspended in it,
\* otherwise it returns the singleton.
GetAgentExecutor(c) ==
    /\ callers[c].pc = "idle"
    /\ IF agent_executor = NoAgent
       THEN /\ createCalls' = createCalls + 1
            /\ callers' = [callers EXCEPT ![c].pc = "creating",
                                          ![c].call = createCalls + 1]
       ELSE /\ callers' = [callers EXCEPT ![c].pc = "returned",
                                          ![c].got = agent_executor.id]
            /\ UNCHANGED createCalls
    /\ UNCHANGED <<startup, agent_executor, chatVars, sqlVars>>

\* create_agent returns to a suspended caller, having fetched `resources`
\* from the MCP server: the caller assigns the new agent to agent_executor
\* and returns it.
CreateAgentReturn(c, resources) ==
    /\ callers[c].pc = "creating"
    /\ agent_executor' = create_agent(callers[c].call)
    /\ callers' = [callers EXCEPT ![c].pc = "returned",
                                  ![c].got = callers[c].call,
                                  ![c].resources = resources,
                                  ![c].prompt = system_prompt(resources)]
    /\ UNCHANGED <<startup, createCalls, chatVars, sqlVars>>

\* create_agent raises (no config file, MCP server unreachable, no API
\* key): the exception leaves get_agent_executor, agent_executor stays None.
CreateAgentRaise(c) ==
    /\ callers[c].pc = "creating"
    /\ callers' = [callers EXCEPT ![c].pc = "failed"]
    /\ UNCHANGED <<startup, agent_executor, createCalls, chatVars, sqlVars>>

NextAgent ==
    \/ \E c \in Callers : GetAgentExecutor(c)
    \/ \E c \in Callers : \E l \in ResourceLists(MaxResources) : CreateAgentReturn(c, l)
    \/ \E c \in Callers : CreateAgentRaise(c)

SpecAgent == Init /\ [][NextAgent]_vars

(* =================== properties of the agent singleton ================= *)

\* C12: create_agent is executed at most once, and all callers that were
\* returned an agent were returned the same one.
C12_AgentCreatedOnce ==
    /\ createCalls <= 1
    /\ \A c1, c2 \in Callers :
          (callers[c1].pc = "returned" /\ callers[c2].pc = "returned")
          => callers[c1].got = callers[c2].got

\* The text between the schema markers of a system prompt.
BetweenMarkers(prompt) == SubSeq(prompt, 3, Len(prompt) - 1)

\* C15: the system prompt of a created agent holds, between its schema
\* markers, the table descriptions of the resources that parsed, joined in
\* resource order, or the placeholder when none parsed.
C15_PromptHoldsSchema ==
    \A c \in Callers :
        (callers[c].pc = "returned" /\ callers[c].call # 0)
        => BetweenMarkers(callers[c].prompt)
           = IF \E i \in 1..Len(callers[c].resources) :
                    ~ResourceRaises(callers[c].resources[i])
             THEN Join(schema_descriptions(callers[c].resources), "\n\n")
             ELSE NoSchemaPlaceholder

(* ==================== properties of the SQL server ===================== *)

\* The query holds keyword kw at position i, whatever the case of its letters.
HoldsAt(q, kw, i) ==
    /\ i + Len(kw) - 1 <= Len(q)
    /\ \A j \in 1..Len(kw) : UpperChar(q[i + j - 1]) = kw[j]

\* The query contains a destructive keyword, case-insensitively.
Destructive(q) ==
    \E k \in 1..Len(dangerous_keywords) : \E i \in 1..Len(q) :
        HoldsAt(q, dangerous_keywords[k], i)

\* C7: with the database initialized, sql_db_query_checker answers a query
\* that contains a destructive keyword (in any case, anywhere) with a text
\* starting with "WARNING:", as a normal result, and makes no call on the
\* database.
C7_DestructiveQueryIsWarnedNotRun ==
    (/\ toolCall.tool = "sql_db_query_checker"
     /\ toolCall.db # None
     /\ Destructive(toolCall.arg))
    => /\ toolResult.raised = None
       /\ toolResult.text[1] = "WARNING:"
       /\ toolResult.calls = <<>>

\* A lower-case "drop table" was checked and warned about.
C7_Witness ==
    /\ toolCall.tool = "sql_db_query_checker"
    /\ toolCall.db # None
    /\ toolCall.arg = <<"d", "r", "o", "p", " ", "t", "a", "b", "l", "e">>
    /\ toolResult.text[1] = "WARNING:"

\* The query, trimmed, is not empty and starts with SELECT in any case.
IsSelect(q) == Strip(q) # <<>> /\ HoldsAt(Strip(q), KW_SELECT, 1)

\* The query the dry run is asked to explain: the query itself, followed by
\* ';' when its trimmed text does not end with one.
Terminated(q) ==
    IF Strip(q)[Len(Strip(q))] = ";" THEN q ELSE q \o <<";">>

\* The checker attempted the dry run of the query and answered with the
\* validity confirmation or with a syntax error, not with a warning.
DryRunAnswered ==
    /\ toolResult.raised = None
    /\ toolResult.calls = <<Call("run", KW_EXPLAIN \o Terminated(toolCall.arg))>>
    /\ toolResult.text[1] # "WARNING:"
    /\ IF toolCall.resp.kind = "raise"
       THEN toolResult.text = <<"Query syntax error: ", toolCall.resp.exc>>
       ELSE toolResult.text = <<"Query syntax appears valid and safe for execution">>

\* C14 as stated: with the database initialized, sql_db_query_checker
\* answers every non-empty query that starts with SELECT by attempting the
\* dry run (EXPLAIN of the query, ';' appended when missing) and returning
\* the validity confirmation or a syntax error, never a safety warning.
C14_SelectIsValidated ==
    (/\ toolCall.tool = "sql_db_query_checker"
     /\ toolCall.db # None
     /\ IsSelect(toolCall.arg))
    => DryRunAnswered

\* C14, amended: the same for every non-empty query that starts with SELECT
\* and contains no destructive keyword; the keyword test comes first, so a
\* SELECT that contains one is warned about without a dry run (C7).
C14_CleanSelectIsValidated ==
    (/\ toolCall.tool = "sql_db_query_checker"
     /\ toolCall.db # None
     /\ IsSelect(toolCall.arg)
     /\ ~Destructive(toolCall.arg))
    => DryRunAnswered

\* "select " was checked: the dry run explained "select ;", the database
\* raised, and the answer is the syntax error.
C14_Witness ==
    /\ toolCall.tool = "sql_db_query_checker"
    /\ toolCall.db # None
    /\ toolCall.arg = <<"s", "e", "l", "e", "c", "t", " ">>
    /\ toolCall.resp.kind = "raise"
    /\ toolResult.calls = <<Call("run", KW_EXPLAIN \o <<"s", "e", "l", "e", "c", "t", " ", ";">>)>>
    /\ toolResult.text[1] = "Query syntax error: "

\* C8: for a result set of n rows, sql_db_query reports n; the sample is the
\* first 100 rows in backend order when n > 100, all n rows when
\* 1 <= n <= 100, and for n = 0 the text says that no rows were returned.
C8_RowCountAndSample ==
    (/\ toolCall.tool = "sql_db_query"
     /\ toolCall.db # None
     /\ toolCall.resp.kind = "list")
    => LET rows == toolCall.resp.rows
           n == Len(rows)
           text == toolResult.text
       IN /\ toolResult.raised = None
          /\ n = 0 => text = <<"Query executed successfully. No rows returned.">>
          /\ n >= 1 => /\ text[2] = n
                       /\ LET sample == text[Len(text)] IN
                          /\ n > 100 => /\ Len(sample) = 100
                                         /\ \A i \in 1..100 : sample[i] = rows[i]
                          /\ n <= 100 => sample = rows

\* A result set of 101 rows was returned and cut to a sample of 100.
C8_Witness ==
    /\ toolCall.tool = "sql_db_query"
    /\ toolCall.db # None
    /\ toolCall.resp.kind = "list"
    /\ Len(toolCall.resp.rows) = 101
    /\ toolResult.text[2] = 101
    /\ Len(toolResult.text[Len(toolResult.text)]) = 100

\* C9: whatever tool is called, with the database uninitialized, reachable
\* or raising during the call, the tool returns a text and raises nothing.
C9_ToolsNeverRaise ==
    toolCall.tool # "none"
    => /\ toolResult.raised = None
       /\ Len(toolResult.text) >= 1

\* The backend raised during a sql_db_schema call and the tool returned the
\* error as text.
C9_Witness ==
    /\ toolCall.tool = "sql_db_schema"
    /\ toolCall.db # None
    /\ toolCall.resp.kind = "raise"
    /\ toolResult.raised = None
    /\ toolResult.text[1] = "Error getting schema: "

====
